---- MODULE Spec2Model ----
(***************************************************************************)
(* Model of docs/.vitepress/theme/components/ArtPlayer.vue: the property   *)
(* parsing done in onMounted, and the audio-track synchronisation between  *)
(* the player's video element (the primary) and the audio element the      *)
(* component creates (the secondary).                                      *)
(*                                                                         *)
(* The browser and the Artplayer library are the environment.  Their       *)
(* contract, as used here:                                                 *)
(*  - media events (play, pause, seeked, volumechange) are queued when the *)
(*    element's state changes and dispatched later, in order; volumechange *)
(*    is queued only when volume or muted really changed;                  *)
(*  - art.volume and art.muted read and write the video element's volume   *)
(*    and muted attributes;                                                *)
(*  - HTMLMediaElement.play() either is refused at once (autoplay policy,  *)
(*    the promise is rejected and the element stays as it was) or clears   *)
(*    paused and leaves a pending promise; pause() sets paused, and the    *)
(*    promises pending on a paused element can only be rejected;           *)
(*  - a new audio element is paused, at position 0, with volume 1, not     *)
(*    muted, and its duration is NaN until its metadata has loaded.        *)
(***************************************************************************)
EXTENDS Integers, Sequences, FiniteSets, TLC

VARIABLES
    props,             \* the component's properties (url, qualities, audioTracks)
    mounted,           \* art is not null: onMounted got as far as new Artplayer
    mountThrew,        \* onMounted ended with an exception
    destroyed,         \* the player's own destroy (originalDestroy) has run
    playerOptions,     \* the url / quality part of the options given to Artplayer
    audioTracksArray,  \* the parsed audioTracks, <<>> when there is no session
    currentAudioTrack, \* index into audioTracksArray, 0 when there is no session
    audioElement,      \* index into elements of the referenced element, 0 = null
    isInitializing,    \* the guard flag
    elements,          \* every audio element created so far, in creation order
    listeners,         \* how many times the four listeners were added to the video
    video,             \* the primary: paused, currentTime, volume, muted
    eventQueue,        \* media events queued on the primary, oldest first
    guardTimer,        \* "none", "armed" (setTimeout pending) or "fired"
    readyFired,        \* the host has delivered 'ready'
    selects,           \* how many track selections have switched the track
    lastOp,            \* history: the operation of the last step
    lastActions,       \* history: what the last step did to secondary elements
    lastErrors,        \* history: the messages the last step wrote with console.error
    lastRejected,      \* history: the elements whose play() promise the last step saw rejected
    lastReturn,        \* history: what the last step returned to its caller, if anything
    lastArg            \* history: the value the last step was called with, if any

vars == <<props, mounted, mountThrew, destroyed, playerOptions, audioTracksArray,
          currentAudioTrack, audioElement, isInitializing, elements, listeners,
          video, eventQueue, guardTimer, readyFired, selects, lastOp,
          lastActions, lastErrors, lastRejected, lastReturn, lastArg>>

-----------------------------------------------------------------------------
(* Bounds of the model. *)

\* track selections that switch the track
MaxSelects == 1

\* media events the environment may leave undelivered on the primary
MaxQueue == 1

\* variants in a list of qualities or audio tracks given as an array
MaxVariants == 3

-----------------------------------------------------------------------------
(* Values. *)

\* volumes in percent; 100 is the 1.0 of the source
FullVolume == 100

Volumes == {0, FullVolume}

\* playback positions in seconds
Times == {0, 30}

Variant(d, h, u) == [default |-> d, html |-> h, url |-> u]

TrackA == Variant(FALSE, "A", "a.mp3")
TrackB == Variant(TRUE, "B", "b.mp3")
TrackC == Variant(FALSE, "C", "")
QualityLow == Variant(FALSE, "480P", "low.mp4")
QualityHigh == Variant(TRUE, "1080P", "high.mp4")

\* the object literals a serialized list may contain, by token
ObjectOf(tok) ==
    CASE tok = "A" -> TrackA
      [] tok = "B" -> TrackB
      [] tok = "C" -> TrackC
      [] tok = "L" -> QualityLow
      [] tok = "H" -> QualityHigh

ObjectTokens == {"A", "B", "C", "L", "H"}

\* JavaScript values a property or a parse result can be.  A string is kept
\* as its text, a sequence of JSON tokens: "[", "]", ",", an object literal
\* (ObjectTokens) or "S", a string literal.
Undefined == [kind |-> "undefined", items |-> <<>>, text |-> <<>>]
ArrayValue(items) == [kind |-> "array", items |-> items, text |-> <<>>]
StringValue(text) == [kind |-> "string", items |-> <<>>, text |-> text]
ObjectValue == [kind |-> "object", items |-> <<>>, text |-> <<>>]

NoUrl == [defined |-> FALSE, str |-> ""]
Url(s) == [defined |-> TRUE, str |-> s]

\* JavaScript truthiness of a property value
Truthy(v) ==
    CASE v.kind = "undefined" -> FALSE
      [] v.kind = "string" -> v.text # <<>>
      [] OTHER -> TRUE

UrlTruthy(u) == u.defined /\ u.str # ""

-----------------------------------------------------------------------------
(* JSON.parse on the token texts. *)

\* the tokens between the brackets: object literals separated by commas
WellFormedItems(s) ==
    \/ s = <<>>
    \/ /\ Len(s) % 2 = 1
       /\ \A i \in 1..Len(s) :
            IF i % 2 = 1 THEN s[i] \in ObjectTokens ELSE s[i] = ","

ItemsOf(s) == [i \in 1..((Len(s) + 1) \div 2) |-> ObjectOf(s[2 * i - 1])]

JSONParse(text) ==
    IF Len(text) = 1 /\ text[1] \in ObjectTokens
    THEN [ok |-> TRUE, value |-> ObjectValue]
    ELSE IF Len(text) = 1 /\ text[1] = "S"
    THEN [ok |-> TRUE, value |-> StringValue(<<"S">>)]
    ELSE IF /\ Len(text) >= 2
            /\ text[1] = "["
            /\ text[Len(text)] = "]"
            /\ WellFormedItems(SubSeq(text, 2, Len(text) - 1))
    THEN [ok |-> TRUE,
          value |-> ArrayValue(IF Len(text) = 2 THEN <<>>
                               ELSE ItemsOf(SubSeq(text, 2, Len(text) - 1)))]
    ELSE [ok |-> FALSE, value |-> Undefined]

-----------------------------------------------------------------------------
(* onMounted: parsing of the properties and the player's options. *)

\* ParseVariants with a fault: without the try/catch a SyntaxError leaves
\* onMounted
ParseVariantsNoCatch(p) ==
    IF ~Truthy(p) THEN [value |-> Undefined, logged |-> FALSE, threw |-> FALSE]
    ELSE IF p.kind = "string"
    THEN IF JSONParse(p.text).ok
         THEN [value |-> JSONParse(p.text).value, logged |-> FALSE, threw |-> FALSE]
         ELSE [value |-> Undefined, logged |-> FALSE, threw |-> TRUE]
    ELSE [value |-> p, logged |-> FALSE, threw |-> FALSE]

\* "let xArray; if (props.x) { if (typeof props.x === 'string') { try { xArray =
\* JSON.parse(props.x) } catch (e) { console.error(...) } } else { xArray = props.x } }"
ParseVariants(p) ==
    IF ~Truthy(p) THEN [value |-> Undefined, logged |-> FALSE, threw |-> FALSE]
    ELSE IF p.kind = "string"
    THEN IF JSONParse(p.text).ok
         THEN [value |-> JSONParse(p.text).value, logged |-> FALSE, threw |-> FALSE]
         ELSE [value |-> Undefined, logged |-> TRUE, threw |-> FALSE]
    ELSE [value |-> p, logged |-> FALSE, threw |-> FALSE]

\* "xArray && xArray.length > 0": an array with elements, or a non-empty
\* string (a parsed object has no length)
HasLength(v) ==
    \/ v.kind = "array" /\ Len(v.items) > 0
    \/ v.kind = "string" /\ Len(v.text) > 0

RECURSIVE FindFrom(_, _)
\* "arr.find(x => x.default)" from index i on: the elements are visited in
\* order and the visit stops at the first one whose default is truthy; the
\* result is its index, 0 for undefined
FindFrom(items, i) ==
    IF i > Len(items) THEN 0
    ELSE IF items[i].default THEN i
    ELSE FindFrom(items, i + 1)

\* FindDefault with a fault: the visit does not stop at the first flagged
\* element, the last one wins
FindDefaultLastFlagged(items) ==
    IF \E i \in 1..Len(items) : items[i].default
    THEN CHOOSE i \in 1..Len(items) :
            items[i].default /\ \A j \in (i + 1)..Len(items) : ~items[j].default
    ELSE 1

\* "arr.find(x => x.default) || arr[0]", as an index
FindDefault(items) ==
    IF FindFrom(items, 1) # 0 THEN FindFrom(items, 1) ELSE 1

\* the url and quality options (lines 104-112); .find on a string throws
BuildOptions(q, url) ==
    IF HasLength(q)
    THEN IF q.kind = "array"
         THEN [quality |-> q, url |-> Url(q.items[FindDefault(q.items)].url),
               threw |-> FALSE]
         ELSE [quality |-> q, url |-> NoUrl, threw |-> TRUE]
    ELSE IF UrlTruthy(url)
    THEN [quality |-> Undefined, url |-> url, threw |-> FALSE]
    ELSE [quality |-> Undefined, url |-> NoUrl, threw |-> FALSE]


-----------------------------------------------------------------------------
(* The secondary elements.  The operators below take and return the part   *)
(* of the state a handler works on:                                        *)
(*   els  the elements, cur  the audioElement reference, lis  the number   *)
(*   of listener sets on the video, log  the calls made on secondary       *)
(*   elements so far in this handler, errs  its console.error messages,    *)
(*   rej  the elements whose play() it saw refused, vid  the video         *)
(*   element as the handler leaves it, ret  the value it returns, arg      *)
(*   the value it was called with.                                         *)
(* v is the video element as the handler reads it.                         *)

Act(op, el, arg) == [op |-> op, el |-> el, arg |-> arg]

\* what a handler without an argument is called with and what a handler
\* without a return statement returns
NoReturn == "undefined"

\* document.createElement('audio') with src set (lines 129-132)
NewElement(url) ==
    [src |-> url, attached |-> FALSE, paused |-> TRUE, currentTime |-> 0,
     loaded |-> FALSE, volume |-> FullVolume, muted |-> FALSE, pending |-> FALSE]

\* HTMLMediaElement.pause()
ElPause(st, i) ==
    [st EXCEPT !.els[i].paused = TRUE, !.log = Append(@, Act("pause", i, 0))]

\* Element.remove()
ElRemove(st, i) ==
    [st EXCEPT !.els[i].attached = FALSE, !.log = Append(@, Act("remove", i, 0))]

\* playCatch with a fault: the rejection is swallowed without a message
playCatchSilent(rejected) == {}

\* .catch(e => console.error('Audio play error:', e)) on a play() promise:
\* what it writes to the console when the promise is rejected (or not)
playCatch(rejected) == IF rejected THEN {"Audio play error"} ELSE {}

\* HTMLMediaElement.play().catch(...): a refused request leaves the element
\* as it was and rejects the promise, an accepted one clears paused and
\* leaves the promise pending
ElPlay(st, i, allowed) ==
    IF allowed
    THEN [st EXCEPT !.els[i].paused = FALSE, !.els[i].pending = TRUE,
                    !.log = Append(@, Act("play", i, 0))]
    ELSE [st EXCEPT !.errs = @ \cup playCatch(TRUE),
                    !.rej = @ \cup {i},
                    !.log = Append(@, Act("play", i, 0))]

ElSetTime(st, i, t) ==
    [st EXCEPT !.els[i].currentTime = t, !.log = Append(@, Act("currentTime", i, t))]

ElSetVolume(st, i, vol) ==
    [st EXCEPT !.els[i].volume = vol, !.log = Append(@, Act("volume", i, vol))]

ElSetMuted(st, i, m) ==
    [st EXCEPT !.els[i].muted = m,
               !.log = Append(@, Act("muted", i, IF m THEN 1 ELSE 0))]

\* art.volume and art.muted: the player's accessors read the video element
artVolume(v) == v.volume

artMuted(v) == v.muted

\* sync with a fault: the assignment goes the other way, the video takes the
\* secondary's position
syncReversed(st, v) ==
    IF st.cur # 0 /\ st.els[st.cur].loaded
    THEN [st EXCEPT !.vid.currentTime = st.els[st.cur].currentTime]
    ELSE st

\* sync with a fault: the duration is not looked at
syncNoDurationCheck(st, v) ==
    IF st.cur # 0 THEN ElSetTime(st, st.cur, v.currentTime) ELSE st

\* "if (audioElement && !isNaN(audioElement.duration)) currentTime = video.currentTime"
sync(st, v) ==
    IF st.cur # 0 /\ st.els[st.cur].loaded
    THEN ElSetTime(st, st.cur, v.currentTime)
    ELSE st

\* video 'play' listener: sync(); audioElement?.play()
playListener(st, v, allowed) ==
    IF sync(st, v).cur # 0
    THEN ElPlay(sync(st, v), st.cur, allowed)
    ELSE sync(st, v)

\* video 'pause' listener: audioElement?.pause()
pauseListener(st) ==
    IF st.cur # 0 THEN ElPause(st, st.cur) ELSE st

\* video 'seeked' listener
seekedListener(st, v) == sync(st, v)

\* volumechangeListener with a fault: the guard flag is not looked at
volumechangeListenerNoGuard(st, v, initializing, allowed) ==
    IF st.cur = 0 THEN st
    ELSE LET s1 == ElSetMuted(ElSetVolume(st, st.cur, artVolume(v)), st.cur, artMuted(v))
         IN  IF ~v.paused /\ ~artMuted(v) /\ s1.els[s1.cur].paused
             THEN ElPlay(s1, s1.cur, allowed)
             ELSE s1

\* volumechangeListener with a fault: playback is requested without looking
\* at the player's muted flag
volumechangeListenerPlaysMuted(st, v, initializing, allowed) ==
    IF initializing THEN st
    ELSE IF st.cur = 0 THEN st
    ELSE LET s1 == ElSetMuted(ElSetVolume(st, st.cur, artVolume(v)), st.cur, artMuted(v))
         IN  IF ~v.paused /\ s1.els[s1.cur].paused
             THEN ElPlay(s1, s1.cur, allowed)
             ELSE s1

\* video 'volumechange' listener
volumechangeListener(st, v, initializing, allowed) ==
    IF initializing THEN st
    ELSE IF st.cur = 0 THEN st
    ELSE LET s1 == ElSetMuted(ElSetVolume(st, st.cur, artVolume(v)), st.cur, artMuted(v))
         IN  IF ~v.paused /\ ~artMuted(v) /\ s1.els[s1.cur].paused
             THEN ElPlay(s1, s1.cur, allowed)
             ELSE s1

\* one listener of the given event
Listener(kind, st, v, initializing, allowed) ==
    CASE kind = "play" -> playListener(st, v, allowed)
      [] kind = "pause" -> pauseListener(st)
      [] kind = "seeked" -> seekedListener(st, v)
      [] kind = "volumechange" -> volumechangeListener(st, v, initializing, allowed)

\* dispatch: every registered listener of the event runs, in registration order
RECURSIVE Dispatch(_, _, _, _, _, _)
Dispatch(kind, n, st, v, initializing, allowed) ==
    IF n = 0 THEN st
    ELSE Dispatch(kind, n - 1, Listener(kind, st, v, initializing, allowed),
                  v, initializing, allowed)

\* The reference to element i is dropped ("audioElement = ..." overwrites it):
\* nothing reads its source, position, duration or volume again, so only its
\* attachment, its paused flag and its pending requests are kept.
Forget(st, i) ==
    [st EXCEPT !.els[i] = [NewElement("") EXCEPT !.attached = st.els[i].attached,
                                                 !.paused = st.els[i].paused,
                                                 !.pending = st.els[i].pending]]

\* teardownPrevious with a fault: the previous element is paused but left in
\* the document
teardownPreviousNoRemove(st) ==
    IF st.cur # 0 THEN Forget(ElPause(st, st.cur), st.cur) ELSE st

\* teardownPrevious with a fault: the previous element is removed but not
\* paused
teardownPreviousNoPause(st) ==
    IF st.cur # 0 THEN Forget(ElRemove(st, st.cur), st.cur) ELSE st

\* "if (audioElement) { audioElement.pause(); audioElement.remove() }", lines
\* 124-127, after which the reference is overwritten
teardownPrevious(st) ==
    IF st.cur # 0 THEN Forget(ElRemove(ElPause(st, st.cur), st.cur), st.cur) ELSE st

\* createAudioElement with a fault: playback of the new element is requested
\* before the listeners are added to the video
createAudioElementPlaysFirst(st, audioUrl, v, allowed) ==
    LET s1 == teardownPrevious(st)
        n  == Len(s1.els) + 1
        s2 == [s1 EXCEPT !.els = Append(@, [NewElement(audioUrl) EXCEPT !.attached = TRUE]),
                         !.cur = n,
                         !.log = @ \o <<Act("create", n, 0), Act("append", n, 0)>>]
        s3 == ElSetMuted(ElSetVolume(s2, n, artVolume(v)), n, artMuted(v))
        s4 == IF ~v.paused THEN ElPlay(sync(s3, v), n, allowed) ELSE s3
    IN  [s4 EXCEPT !.lis = @ + 1, !.log = Append(@, Act("addListeners", n, 0))]

\* createAudioElement(audioUrl)
createAudioElement(st, audioUrl, v, allowed) ==
    LET s1 == teardownPrevious(st)
        n  == Len(s1.els) + 1
        s2 == [s1 EXCEPT !.els = Append(@, [NewElement(audioUrl) EXCEPT !.attached = TRUE]),
                         !.cur = n,
                         !.log = @ \o <<Act("create", n, 0), Act("append", n, 0)>>]
        s3 == [s2 EXCEPT !.lis = @ + 1, !.log = Append(@, Act("addListeners", n, 0))]
        s4 == ElSetMuted(ElSetVolume(s3, n, artVolume(v)), n, artMuted(v))
    IN  IF ~v.paused THEN ElPlay(sync(s4, v), n, allowed) ELSE s4

\* the handler's view of the state, with an empty log
Handler == [els |-> elements, cur |-> audioElement, lis |-> listeners,
            log |-> <<>>, errs |-> {}, rej |-> {}, vid |-> video, ret |-> NoReturn,
            arg |-> NoReturn]

\* the state after a handler
Commit(st, op) ==
    /\ elements' = st.els
    /\ audioElement' = st.cur
    /\ listeners' = st.lis
    /\ lastErrors' = st.errs
    /\ lastRejected' = st.rej
    /\ lastReturn' = st.ret
    /\ lastArg' = st.arg
    /\ video' = st.vid
    /\ lastActions' = st.log
    /\ lastOp' = op

HasSession == audioTracksArray # <<>>

\* the queue after a write of the video's volume (of its muted flag): a
\* volumechange is queued if the value changed
WriteVolume(q, v, vol) ==
    IF v.volume # vol THEN Append(q, "volumechange") ELSE q

WriteMuted(q, v, m) ==
    IF v.muted # m THEN Append(q, "volumechange") ELSE q

\* the answers of the browser's autoplay policy to the play() calls of a
\* handler; it is asked only where a handler can call play()
PolicyAnswers(mayPlay) == IF mayPlay THEN BOOLEAN ELSE {TRUE}

-----------------------------------------------------------------------------
(* Initial states: the component before onMounted. *)

Unmounted(p) ==
    /\ props = p
    /\ mounted = FALSE
    /\ mountThrew = FALSE
    /\ destroyed = FALSE
    /\ playerOptions = [quality |-> Undefined, url |-> NoUrl]
    /\ audioTracksArray = <<>>
    /\ currentAudioTrack = 0
    /\ audioElement = 0
    /\ isInitializing = FALSE
    /\ elements = <<>>
    /\ listeners = 0
    /\ video = [paused |-> TRUE, currentTime |-> 0, volume |-> FullVolume, muted |-> FALSE]
    /\ eventQueue = <<>>
    /\ guardTimer = "none"
    /\ readyFired = FALSE
    /\ selects = 0
    /\ lastOp = "init"
    /\ lastActions = <<>>
    /\ lastErrors = {}
    /\ lastRejected = {}
    /\ lastReturn = NoReturn
    /\ lastArg = NoReturn

\* the audioTracks properties the synchronisation is explored with
SessionTracks ==
    { Undefined,
      ArrayValue(<<TrackC>>),
      ArrayValue(<<TrackA, TrackB>>),
      StringValue(<<"[", "A", "]">>) }

Init ==
    \E a \in SessionTracks :
        Unmounted([url |-> Url("video.mp4"), qualities |-> Undefined, audioTracks |-> a])

-----------------------------------------------------------------------------
(* onMounted *)

Mount ==
    /\ ~mounted /\ ~mountThrew
    /\ LET q == ParseVariants(props.qualities)
           a == ParseVariants(props.audioTracks)
           o == BuildOptions(q.value, props.url)
           session == ~q.threw /\ ~a.threw /\ ~o.threw /\ HasLength(a.value)
                      /\ a.value.kind = "array"
       IN  /\ lastErrors' =
                (IF q.logged THEN {"Failed to parse qualities JSON"} ELSE {})
                \cup (IF ~q.threw /\ a.logged THEN {"Failed to parse audioTracks JSON"}
                      ELSE {})
           /\ playerOptions' = IF q.threw \/ a.threw
                               THEN playerOptions
                               ELSE [quality |-> o.quality, url |-> o.url]
           \* art = new Artplayer(playerOptions), line 114
           /\ mounted' = (~q.threw /\ ~a.threw /\ ~o.threw)
           \* audioTracksArray.find on a string throws, line 118
           /\ mountThrew' = (q.threw \/ a.threw \/ o.threw
                             \/ (HasLength(a.value) /\ a.value.kind # "array"))
           /\ audioTracksArray' = IF session THEN a.value.items ELSE <<>>
           /\ currentAudioTrack' = IF session THEN FindDefault(a.value.items) ELSE 0
    /\ lastOp' = "mount"
    /\ lastRejected' = {}
    /\ lastReturn' = NoReturn
    /\ lastArg' = NoReturn
    /\ UNCHANGED <<props, destroyed, audioElement, isInitializing, elements, listeners,
                   video, eventQueue, guardTimer, readyFired, selects, lastActions>>

-----------------------------------------------------------------------------
(* The session's handlers. *)

\* art.on('ready', ...)
Ready ==
    /\ mounted /\ HasSession /\ ~readyFired
    /\ readyFired' = TRUE
    /\ isInitializing' = TRUE
    /\ eventQueue' = WriteVolume(eventQueue, video, 0)
    /\ guardTimer' = "armed"
    /\ \E allowed \in PolicyAnswers(~video.paused) :
        LET silenced == [Handler EXCEPT !.vid.volume = 0]
        IN  IF audioTracksArray[currentAudioTrack].url # ""
            THEN Commit(createAudioElement(silenced, audioTracksArray[currentAudioTrack].url,
                                           silenced.vid, allowed), "ready")
            ELSE Commit(silenced, "ready")
    /\ UNCHANGED <<props, mounted, mountThrew, destroyed, playerOptions,
                   audioTracksArray, currentAudioTrack, selects>>

\* the setTimeout callback of the 'ready' handler
GuardTimer ==
    /\ guardTimer = "armed"
    /\ guardTimer' = "fired"
    /\ video' = [video EXCEPT !.volume = FullVolume, !.muted = FALSE]
    /\ eventQueue' = WriteMuted(WriteVolume(eventQueue, video, FullVolume), video, FALSE)
    /\ isInitializing' = FALSE
    /\ lastOp' = "timer"
    /\ lastActions' = <<>>
    /\ lastErrors' = {}
    /\ lastRejected' = {}
    /\ lastReturn' = NoReturn
    /\ lastArg' = NoReturn
    /\ UNCHANGED <<props, mounted, mountThrew, destroyed, playerOptions,
                   audioTracksArray, currentAudioTrack, audioElement, elements,
                   listeners, readyFired, selects>>

\* the values the settings panel can hand to onSelect
SelectValues == {audioTracksArray[i].url : i \in 1..Len(audioTracksArray)} \cup {"other.mp3"}

\* "audioTracksArray.find(t => t.url === item.value)", as an index, 0 if none
FindTrack(value) ==
    IF \E i \in 1..Len(audioTracksArray) : audioTracksArray[i].url = value
    THEN CHOOSE i \in 1..Len(audioTracksArray) :
            /\ audioTracksArray[i].url = value
            /\ \A j \in 1..(i - 1) : audioTracksArray[j].url # value
    ELSE 0

\* the label of the selector item with the given value: the track's label
\* (lines 209-213), or that of an item the selector was not built with
ItemHtml(value) ==
    IF FindTrack(value) # 0 THEN audioTracksArray[FindTrack(value)].html ELSE "Other"

\* onSelectReturn with a fault: the item's label is returned also when no
\* track matches
onSelectReturnsItem(found, itemHtml, currentHtml) == itemHtml

\* "if (selectedTrack) { ...; return item.html } return currentAudioTrack.html"
onSelectReturn(found, itemHtml, currentHtml) ==
    IF found THEN itemHtml ELSE currentHtml

\* onSelect of the track selector, registered when there are several tracks
OnSelect ==
    /\ mounted /\ Len(audioTracksArray) > 1
    /\ \E value \in SelectValues, allowed \in PolicyAnswers(~video.paused) :
        LET returned == onSelectReturn(FindTrack(value) # 0, ItemHtml(value),
                                       audioTracksArray[currentAudioTrack].html)
        IN  IF FindTrack(value) # 0
            THEN /\ selects < MaxSelects
                 /\ selects' = selects + 1
                 /\ currentAudioTrack' = FindTrack(value)
                 /\ Commit([createAudioElement(Handler,
                                               audioTracksArray[FindTrack(value)].url,
                                               video, allowed)
                               EXCEPT !.ret = returned, !.arg = value], "select")
            ELSE /\ selects' = selects
                 /\ currentAudioTrack' = currentAudioTrack
                 /\ Commit([Handler EXCEPT !.ret = returned, !.arg = value], "select")
    /\ UNCHANGED <<props, mounted, mountThrew, destroyed, playerOptions,
                   audioTracksArray, isInitializing, eventQueue, guardTimer,
                   readyFired>>

\* destroyCleanup with a fault: the reference is not set to null
destroyCleanupKeepsReference(st) ==
    IF st.cur # 0 THEN ElRemove(ElPause(st, st.cur), st.cur) ELSE st

\* destroyCleanup with a fault: the element is removed without being paused
destroyCleanupNoPause(st) ==
    IF st.cur # 0
    THEN [Forget(ElRemove(st, st.cur), st.cur) EXCEPT !.cur = 0]
    ELSE st

\* the cleanup the wrapped art.destroy does before originalDestroy
destroyCleanup(st) ==
    IF st.cur # 0
    THEN [Forget(ElRemove(ElPause(st, st.cur), st.cur), st.cur) EXCEPT !.cur = 0]
    ELSE st

\* art.destroy(removeHtml), called by onBeforeUnmount or directly; it is the
\* wrapped one when there is a session
Destroy ==
    /\ mounted
    /\ IF HasSession THEN Commit(destroyCleanup(Handler), "destroy")
                     ELSE Commit(Handler, "destroy")
    /\ destroyed' = TRUE
    /\ UNCHANGED <<props, mounted, mountThrew, playerOptions, audioTracksArray,
                   currentAudioTrack, isInitializing, eventQueue, guardTimer,
                   readyFired, selects>>

-----------------------------------------------------------------------------
(* The environment: the user and the player act on the video, the browser  *)
(* dispatches its events and settles the secondary elements' requests.     *)

EnvFrame == UNCHANGED <<props, mounted, mountThrew, destroyed, playerOptions,
                        audioTracksArray, currentAudioTrack,
                        audioElement, isInitializing, elements, listeners,
                        guardTimer, readyFired, selects>>

VideoPlay ==
    /\ mounted /\ video.paused /\ Len(eventQueue) < MaxQueue
    /\ video' = [video EXCEPT !.paused = FALSE]
    /\ eventQueue' = Append(eventQueue, "play")
    /\ lastOp' = "env" /\ lastActions' = <<>> /\ lastErrors' = {}
    /\ lastRejected' = {}
    /\ lastReturn' = NoReturn
    /\ lastArg' = NoReturn
    /\ EnvFrame

VideoPause ==
    /\ mounted /\ ~video.paused /\ Len(eventQueue) < MaxQueue
    /\ video' = [video EXCEPT !.paused = TRUE]
    /\ eventQueue' = Append(eventQueue, "pause")
    /\ lastOp' = "env" /\ lastActions' = <<>> /\ lastErrors' = {}
    /\ lastRejected' = {}
    /\ lastReturn' = NoReturn
    /\ lastArg' = NoReturn
    /\ EnvFrame

VideoSeek ==
    /\ mounted /\ Len(eventQueue) < MaxQueue
    /\ \E t \in Times : video' = [video EXCEPT !.currentTime = t]
    /\ eventQueue' = Append(eventQueue, "seeked")
    /\ lastOp' = "env" /\ lastActions' = <<>> /\ lastErrors' = {}
    /\ lastRejected' = {}
    /\ lastReturn' = NoReturn
    /\ lastArg' = NoReturn
    /\ EnvFrame

\* the user's volume control, or the player setting its volume internally
VideoVolume ==
    /\ mounted /\ Len(eventQueue) < MaxQueue
    /\ \E vol \in Volumes \ {video.volume} :
        /\ video' = [video EXCEPT !.volume = vol]
        /\ eventQueue' = WriteVolume(eventQueue, video, vol)
    /\ lastOp' = "env" /\ lastActions' = <<>> /\ lastErrors' = {}
    /\ lastRejected' = {}
    /\ lastReturn' = NoReturn
    /\ lastArg' = NoReturn
    /\ EnvFrame

\* the user's mute control
VideoMute ==
    /\ mounted /\ Len(eventQueue) < MaxQueue
    /\ video' = [video EXCEPT !.muted = ~video.muted]
    /\ eventQueue' = WriteMuted(eventQueue, video, ~video.muted)
    /\ lastOp' = "env" /\ lastActions' = <<>> /\ lastErrors' = {}
    /\ lastRejected' = {}
    /\ lastReturn' = NoReturn
    /\ lastArg' = NoReturn
    /\ EnvFrame

\* the oldest queued event is dispatched to the listeners on the video
DeliverEvent ==
    /\ eventQueue # <<>>
    /\ eventQueue' = Tail(eventQueue)
    /\ \E allowed \in PolicyAnswers(Head(eventQueue) \in {"play", "volumechange"}
                                    /\ audioElement # 0) :
        Commit(Dispatch(Head(eventQueue), listeners, Handler, video, isInitializing,
                        allowed), Head(eventQueue))
    /\ UNCHANGED <<props, mounted, mountThrew, destroyed, playerOptions,
                   audioTracksArray, currentAudioTrack, isInitializing,
                   guardTimer, readyFired, selects>>

\* the referenced element's metadata arrives: its duration becomes a number
LoadedMetadata ==
    /\ audioElement # 0
    /\ ~elements[audioElement].loaded
    /\ elements[audioElement].src # ""
    /\ elements' = [elements EXCEPT ![audioElement].loaded = TRUE]
    /\ lastOp' = "env" /\ lastActions' = <<>> /\ lastErrors' = {}
    /\ lastRejected' = {}
    /\ lastReturn' = NoReturn
    /\ lastArg' = NoReturn
    /\ UNCHANGED <<props, mounted, mountThrew, destroyed, playerOptions,
                   audioTracksArray, currentAudioTrack, audioElement, isInitializing,
                   listeners, video, eventQueue, guardTimer, readyFired, selects>>

\* the play promises pending on an element are settled: rejected on a paused
\* element, otherwise resolved or rejected
SettlePlay ==
    /\ \E i \in 1..Len(elements), resolved \in BOOLEAN :
        /\ elements[i].pending
        /\ resolved => ~elements[i].paused
        /\ elements' = [elements EXCEPT ![i].pending = FALSE]
        /\ lastErrors' = playCatch(~resolved)
        /\ lastRejected' = IF resolved THEN {} ELSE {i}
    /\ lastReturn' = NoReturn
    /\ lastArg' = NoReturn
    /\ lastOp' = "settle" /\ lastActions' = <<>>
    /\ UNCHANGED <<props, mounted, mountThrew, destroyed, playerOptions,
                   audioTracksArray, currentAudioTrack, audioElement, isInitializing,
                   listeners, video, eventQueue, guardTimer, readyFired, selects>>

-----------------------------------------------------------------------------
(* The specifications. *)

Next ==
    \/ Mount
    \/ Ready
    \/ GuardTimer
    \/ OnSelect
    \/ Destroy
    \/ VideoPlay
    \/ VideoPause
    \/ VideoSeek
    \/ VideoVolume
    \/ VideoMute
    \/ DeliverEvent
    \/ LoadedMetadata
    \/ SettlePlay

Spec == Init /\ [][Next]_vars

\* The property parsing on its own: onMounted on every combination of the
\* property values below.
JsonTexts ==
    { <<>>,
      <<"[", "]">>,
      <<"[", "A", "]">>,
      <<"[", "L", ",", "H", "]">>,
      <<"[", "A", ",", "B", "]">>,
      <<"A">>,
      <<"S">>,
      <<"[">>,
      <<"[", "A", ",", "]">>,
      <<"[", "A", "B", "]">>,
      <<"A", "]">> }

\* the patterns of default flags of the lists of up to MaxVariants variants
FlagLists == UNION {[1..n -> BOOLEAN] : n \in 1..MaxVariants}

VariantNames == <<"V1", "V2", "V3", "V4", "V5">>
VariantUrls == <<"v1.mp4", "v2.mp4", "v3.mp4", "v4.mp4", "v5.mp4">>

\* the list with the given flags; its variants differ in label and url
FlaggedList(f) ==
    [i \in 1..Len(f) |-> Variant(f[i], VariantNames[i], VariantUrls[i])]

VariantInputs ==
    { Undefined, ArrayValue(<<>>), ArrayValue(<<TrackA, TrackB>>),
      ArrayValue(<<QualityLow, QualityHigh>>) }
    \cup {StringValue(t) : t \in JsonTexts}
    \cup {ArrayValue(FlaggedList(f)) : f \in FlagLists}

UrlInputs == {NoUrl, Url(""), Url("video.mp4")}

InitProps ==
    \E u \in UrlInputs, q \in VariantInputs, a \in VariantInputs :
        Unmounted([url |-> u, qualities |-> q, audioTracks |-> a])

SpecProps == InitProps /\ [][Mount]_vars

-----------------------------------------------------------------------------
(* Properties. *)

Attached == {i \in 1..Len(elements) : elements[i].attached}

Playing == {i \in 1..Len(elements) : ~elements[i].paused}

\* the calls of the last step with the given name
CallsOf(op) == {k \in 1..Len(lastActions) : lastActions[k].op = op}

\* the last step was a track selection that switched the track
Switched == lastOp = "select" /\ CallsOf("create") # {}

\* C1: at most one secondary audio element is attached to the document, in
\* every reachable state, whatever the order of 'ready', track selections and
\* destroy calls.
AtMostOneAttached == Cardinality(Attached) <= 1

\* a track switch has replaced an attached element by another
SwitchReplacedElement ==
    /\ Switched
    /\ CallsOf("remove") # {}
    /\ Attached = {audioElement}
    /\ Len(elements) >= 2

\* C2: a destroy call leaves no secondary element attached and the reference
\* null; when there is no secondary element it calls nothing on any element,
\* changes no element and raises or logs no error.
DestroyIdempotent ==
    [][lastOp' = "destroy" =>
          /\ audioElement' = 0
          /\ Attached' = {}
          /\ lastErrors' = {}
          /\ audioElement = 0 => (elements' = elements /\ lastActions' = <<>>)]_vars

\* a destroy call that found the reference already null, after elements had
\* been created and released by an earlier destroy
DestroyedAgain ==
    /\ lastOp = "destroy"
    /\ lastActions = <<>>
    /\ HasSession
    /\ Len(elements) > 0
    /\ destroyed

\* C3: once the guard timer has fired and no volumechange is left queued, the
\* secondary element has the intended starting state (volume 1.0, not muted),
\* as long as the player still has it, whatever happened to the primary's
\* volume during the guard window.
StartingVolumeApplied ==
    (/\ guardTimer = "fired"
     /\ \A k \in 1..Len(eventQueue) : eventQueue[k] # "volumechange"
     /\ audioElement # 0
     /\ video.volume = FullVolume
     /\ ~video.muted)
    => (/\ elements[audioElement].volume = FullVolume
        /\ ~elements[audioElement].muted)


\* C4: right after a track switch the new secondary element is at the
\* primary's position, and it is playing exactly if the primary is (a start
\* the browser refused at once is not held against the switch).
SwitchPreservesPlayback ==
    Switched =>
        /\ elements[audioElement].currentTime = video.currentTime
        /\ video.paused => elements[audioElement].paused
        /\ ~video.paused =>
              (~elements[audioElement].paused \/ "Audio play error" \in lastErrors)

\* C5: a track switch while the primary plays requests playback once, on the
\* new element, after every pause and remove of the switch; every other
\* element is then paused and out of the document, so no two elements play.
SwitchPlaysOnceAfterTeardown ==
    (Switched /\ ~video.paused) =>
        /\ Cardinality(CallsOf("play")) = 1
        /\ \A k \in CallsOf("play") :
              /\ lastActions[k].el = audioElement
              /\ \A j \in CallsOf("pause") \cup CallsOf("remove") :
                    j < k /\ lastActions[j].el # audioElement
        /\ \A i \in 1..Len(elements) :
              i # audioElement => (elements[i].paused /\ ~elements[i].attached)
        /\ Cardinality(Playing) <= 1

\* a switch while the primary plays that tore a previous element down
SwitchedWhilePlaying ==
    /\ Switched
    /\ ~video.paused
    /\ CallsOf("pause") # {}
    /\ CallsOf("remove") # {}
    /\ Playing = {audioElement}

\* C6: a 'seeked' event sets the secondary's position to the primary's when
\* the secondary exists and its duration is a number, and otherwise changes
\* no element.
SeekedAligns ==
    [][lastOp' = "seeked" =>
          IF audioElement # 0 /\ elements[audioElement].loaded
          THEN elements'[audioElement].currentTime = video.currentTime
          ELSE elements' = elements]_vars

\* a 'seeked' event has moved a loaded secondary element to 30 s
SeekedMovedSecondary ==
    /\ lastOp = "seeked"
    /\ audioElement # 0
    /\ elements[audioElement].loaded
    /\ video.currentTime = 30
    /\ elements[audioElement].currentTime = 30
    /\ CallsOf("currentTime") # {}

\* C7: with a loaded secondary element each primary event is mirrored once:
\* play as "set the position, then play", pause as "pause", seeked as "set
\* the position".
MirrorsPrimaryEvents ==
    (audioElement # 0 /\ elements[audioElement].loaded) =>
        /\ lastOp = "play" =>
              lastActions = <<Act("currentTime", audioElement, video.currentTime),
                              Act("play", audioElement, 0)>>
        /\ lastOp = "pause" => lastActions = <<Act("pause", audioElement, 0)>>
        /\ lastOp = "seeked" =>
              lastActions = <<Act("currentTime", audioElement, video.currentTime)>>

\* C8: while the guard flag is set a volumechange event changes no secondary
\* element and calls nothing on one (no volume or muted write, no play).
GuardIgnoresVolumechange ==
    [][(lastOp' = "volumechange" /\ isInitializing) =>
          (elements' = elements /\ lastActions' = <<>> /\ lastErrors' = {})]_vars

\* a volumechange was dispatched under the guard while the secondary's volume
\* differed from the player's
VolumechangeUnderGuard ==
    /\ lastOp = "volumechange"
    /\ isInitializing
    /\ audioElement # 0
    /\ elements[audioElement].volume # artVolume(video)

\* C9: after destroy no secondary element is attached, referenced or playing,
\* whatever happens later.
DetachedIsTerminal ==
    destroyed => (Attached = {} /\ Playing = {} /\ audioElement = 0)

\* a property value that JSON.parse rejects
ParseFails(p) == p.kind = "string" /\ ~JSONParse(p.text).ok

\* a property value that parses to a JavaScript string, on which .find throws
ParsesToString(p) ==
    /\ p.kind = "string"
    /\ JSONParse(p.text).ok
    /\ JSONParse(p.text).value.kind = "string"

\* C10 as stated: a qualities (audioTracks) string that fails to parse is
\* logged, the list counts as not supplied, the plain url is used (no session
\* is created), and onMounted does not throw because of it.
MalformedLoggedAndFallsBack ==
    lastOp = "mount" =>
        /\ ParseFails(props.qualities) =>
              /\ "Failed to parse qualities JSON" \in lastErrors
              /\ playerOptions.quality = Undefined
              /\ playerOptions.url.str = props.url.str
              /\ mountThrew => ParsesToString(props.audioTracks)
        /\ ParseFails(props.audioTracks) =>
              /\ "Failed to parse audioTracks JSON" \in lastErrors
              /\ ~HasSession
              /\ mountThrew => ParsesToString(props.qualities)

\* C10, amended: as above, but the failure is logged exactly when the string
\* is not empty; an empty string counts as not supplied and is not parsed.
MalformedFallsBack ==
    lastOp = "mount" =>
        /\ ParseFails(props.qualities) =>
              /\ "Failed to parse qualities JSON" \in lastErrors
                    <=> props.qualities.text # <<>>
              /\ playerOptions.quality = Undefined
              /\ playerOptions.url.str = props.url.str
              /\ mountThrew => ParsesToString(props.audioTracks)
        /\ ParseFails(props.audioTracks) =>
              /\ "Failed to parse audioTracks JSON" \in lastErrors
                    <=> props.audioTracks.text # <<>>
              /\ ~HasSession
              /\ mountThrew => ParsesToString(props.qualities)

\* onMounted has run on two malformed strings and a url
MountedOnMalformed ==
    /\ lastOp = "mount"
    /\ ParseFails(props.qualities) /\ props.qualities.text # <<>>
    /\ ParseFails(props.audioTracks) /\ props.audioTracks.text # <<>>
    /\ UrlTruthy(props.url)
    /\ mounted
    /\ playerOptions.url = props.url

\* the play() calls the step being taken makes on element i
PlayCallsOn(i) ==
    {k \in 1..Len(lastActions') : lastActions'[k].op = "play" /\ lastActions'[k].el = i}

\* C11: a rejected playback request on the secondary is caught and logged
\* ("Audio play error"); an element that was paused stays paused; the session
\* stays as it is (the rejected element remains the referenced, attached one);
\* the controller makes no call in reaction to the rejection, and each listener
\* set (each createAudioElement call) has asked at most once; a later 'play'
\* event of the primary asks again.
RejectionLoggedNoRetry ==
    [][/\ lastRejected' # {} =>
            /\ "Audio play error" \in lastErrors'
            /\ \A i \in lastRejected' :
                  (i > Len(elements) \/ elements[i].paused) => elements'[i].paused
            /\ lastOp' = "settle" =>
                  /\ lastActions' = <<>>
                  /\ UNCHANGED <<audioElement, listeners, currentAudioTrack,
                                 isInitializing, video, eventQueue>>
            /\ lastOp' # "settle" =>
                  /\ lastRejected' = {audioElement'}
                  /\ elements'[audioElement'].attached
                  /\ Cardinality(PlayCallsOn(audioElement')) <=
                        (IF lastOp' \in {"ready", "select"} THEN 1 ELSE listeners)
       /\ (lastOp' = "play" /\ audioElement # 0) => PlayCallsOn(audioElement) # {}]_vars

\* a 'play' event of the primary whose playback request on the paused
\* secondary was refused
PlayRefused ==
    /\ lastOp = "play"
    /\ lastRejected = {audioElement}
    /\ elements[audioElement].paused
    /\ ~video.paused

\* k is the place of the first flagged variant of the list, or 1 when no
\* variant is flagged
FirstFlaggedOrFirst(items, k) ==
    /\ k \in 1..Len(items)
    /\ IF \E i \in 1..Len(items) : items[i].default
       THEN items[k].default /\ \A j \in 1..(k - 1) : ~items[j].default
       ELSE k = 1

\* C12: after onMounted, for a non-empty list of qualities the url given to
\* the player is that of exactly one variant, the first flagged one or the
\* first when none is flagged, and for a non-empty list of audio tracks the
\* current track is the first flagged one or the first when none is flagged;
\* also with several variants flagged.
InitialVariantChosen ==
    lastOp = "mount" =>
        /\ (playerOptions.quality.kind = "array" /\ playerOptions.quality.items # <<>>) =>
              \E k \in 1..Len(playerOptions.quality.items) :
                  /\ FirstFlaggedOrFirst(playerOptions.quality.items, k)
                  /\ playerOptions.url = Url(playerOptions.quality.items[k].url)
                  /\ \A j \in 1..Len(playerOptions.quality.items) :
                        playerOptions.quality.items[j].url = playerOptions.url.str
                            => j = k
        /\ HasSession => FirstFlaggedOrFirst(audioTracksArray, currentAudioTrack)

\* mounted with three audio tracks of which the second and the third are
\* flagged, and with several qualities of which none is flagged
SeveralFlaggedMounted ==
    /\ lastOp = "mount"
    /\ Len(audioTracksArray) = 3
    /\ ~audioTracksArray[1].default
    /\ audioTracksArray[2].default
    /\ audioTracksArray[3].default
    /\ currentAudioTrack = 2
    /\ playerOptions.quality.kind = "array"
    /\ Len(playerOptions.quality.items) >= 2
    /\ \A i \in 1..Len(playerOptions.quality.items) : ~playerOptions.quality.items[i].default
    /\ playerOptions.url = Url(playerOptions.quality.items[1].url)

\* C13: track switches do not accumulate handlers on the primary: the four
\* listeners are registered at most once however many elements were created,
\* and one 'play' event of the primary makes exactly one playback request on
\* the referenced secondary.
NoHandlerAccumulation ==
    /\ listeners <= 1
    /\ (lastOp = "play" /\ audioElement # 0) =>
          Cardinality({k \in CallsOf("play") : lastActions[k].el = audioElement}) = 1

\* C14: destroy and a track switch cancel a playback start that is in flight:
\* every element the controller has let go of (by a switch or by destroy) is
\* paused from that step on, also while its play() request is still pending
\* and after that request has completed, in whichever way.
CancelledStaysPaused ==
    \A i \in 1..Len(elements) : i # audioElement => elements[i].paused

\* the request that was pending when its element was let go of has just
\* completed (by rejection) and the element is paused
InFlightCompletedAfterRelease ==
    /\ lastOp = "settle"
    /\ \E i \in lastRejected :
          /\ i # audioElement
          /\ elements[i].paused
          /\ ~elements[i].pending

\* C15: within every creation of a secondary element the four listeners are
\* registered on the primary before playback is requested on that element:
\* in the step that creates it the registration follows the creation and
\* precedes every play() on the element, and no step requests playback while
\* no listeners are registered.
ListenersBeforeFirstPlay ==
    /\ \A c \in CallsOf("create") :
          \E a \in CallsOf("addListeners") :
              /\ lastActions[a].el = lastActions[c].el
              /\ a > c
              /\ \A k \in CallsOf("play") :
                    lastActions[k].el = lastActions[c].el => k > a
    /\ CallsOf("play") # {} => listeners >= 1

\* 'ready' came while the primary was playing: the element was created, the
\* listeners were added and playback was requested, all in that step
CreatedWhilePlaying ==
    /\ lastOp = "ready"
    /\ CallsOf("addListeners") # {}
    /\ CallsOf("play") # {}

\* C16: the guard flag, once set by 'ready', is cleared only by the guard
\* timer; in the step that clears it the primary has been given volume 1.0
\* and muted false; and the flag is set when the first secondary element is
\* created.
GuardWindowOrdered ==
    /\ (readyFired /\ ~isInitializing) => guardTimer = "fired"
    /\ lastOp = "timer" =>
          (~isInitializing /\ video.volume = FullVolume /\ ~video.muted)
    /\ (Len(elements) = 1 /\ CallsOf("create") # {}) => isInitializing

\* the steps taken by the controller's own code
ControllerSteps ==
    {"ready", "timer", "select", "destroy", "play", "pause", "seeked", "volumechange"}

\* C17: while there is a secondary element the primary's own audio stays
\* suppressed: 'ready' leaves the video element at volume 0 and no step of
\* the controller that ends with a secondary element raises the video
\* element's volume above 0.
PrimaryAudioSuppressed ==
    [][(lastOp' \in ControllerSteps /\ audioElement' # 0) =>
          /\ lastOp' = "ready" => video'.volume = 0
          /\ video'.volume = 0 \/ video'.volume = video.volume]_vars

\* C18: a volumechange event outside the guard window leaves the referenced
\* secondary with the player's volume and muted flag, and it requests
\* playback of the secondary exactly when the primary is not paused, the
\* player is not muted and the secondary is paused: never while the primary
\* is paused or the player is muted.
VolumechangeCopiesAndResumes ==
    [][(lastOp' = "volumechange" /\ ~isInitializing /\ audioElement # 0) =>
          /\ elements'[audioElement].volume = artVolume(video)
          /\ elements'[audioElement].muted = artMuted(video)
          /\ PlayCallsOn(audioElement) # {} <=>
                (~video.paused /\ ~artMuted(video) /\ elements[audioElement].paused)
          /\ (video.paused \/ artMuted(video)) =>
                {k \in 1..Len(lastActions') : lastActions'[k].op = "play"} = {}]_vars

\* a volumechange outside the guard window found the primary playing, the
\* player not muted and the secondary paused, and requested playback
VolumechangeRequestedPlay ==
    /\ lastOp = "volumechange"
    /\ ~isInitializing
    /\ audioElement # 0
    /\ CallsOf("play") # {}
    /\ CallsOf("volume") # {}

\* C19: synchronization goes one way, from the primary to the secondary: no
\* step of the controller (a listener, 'ready', the guard timer, a track
\* selection, destroy) changes the primary's playback position or its paused
\* state, and none leaves a play, pause or seeked event behind on the primary.
PrimaryPlaybackUntouched ==
    [][lastOp' \in ControllerSteps =>
          /\ video'.paused = video.paused
          /\ video'.currentTime = video.currentTime
          /\ \A k \in (Len(eventQueue) + 1)..Len(eventQueue') :
                eventQueue'[k] = "volumechange"]_vars

\* a 'play' event was mirrored with the primary away from position 0: the
\* secondary was given the primary's position and asked to play, and the
\* primary is where it was
PlayMirroredAwayFromStart ==
    /\ lastOp = "play"
    /\ audioElement # 0
    /\ video.currentTime # 0
    /\ ~video.paused
    /\ \E k \in CallsOf("currentTime") : lastActions[k].arg = video.currentTime
    /\ CallsOf("play") # {}

\* C20: whenever there is a referenced secondary element its source is the
\* url of the current track; and a selection whose value is the url of no
\* configured track changes neither the current track nor any secondary
\* element (nor the reference), calls nothing, and returns the label of the
\* current track.
SourceFollowsCurrentTrack ==
    [][/\ audioElement' # 0 =>
            elements'[audioElement'].src = audioTracksArray'[currentAudioTrack'].url
       /\ (/\ lastOp' = "select"
           /\ \A i \in 1..Len(audioTracksArray) : audioTracksArray[i].url # lastArg') =>
            /\ UNCHANGED <<currentAudioTrack, audioElement, elements, listeners>>
            /\ lastActions' = <<>>
            /\ lastReturn' = audioTracksArray[currentAudioTrack].html]_vars

\* a value that matches no track was selected while a secondary element
\* existed for a track chosen by an earlier selection
UnknownValueSelected ==
    /\ lastOp = "select"
    /\ \A i \in 1..Len(audioTracksArray) : audioTracksArray[i].url # lastArg
    /\ audioElement # 0
    /\ selects > 0
    /\ lastReturn = audioTracksArray[currentAudioTrack].html

=============================================================================
